---- MODULE Spec2Model ----
(***************************************************************************)
(* Model of the stdio MCP server of bossman: the lifecycle state machine,  *)
(* the dispatcher, the in-flight table and the line-framed transport.      *)
(*                                                                         *)
(* Raw JSON texts that the code keeps as json.RawMessage (identifiers,     *)
(* cancellation keys) are sequences of one-character strings, so that the  *)
(* encoder's rewriting of them is computed character by character.         *)
(***************************************************************************)
EXTENDS Integers, Sequences, FiniteSets, TLC

(***************************************************************************)
(* Bounds of the model.                                                    *)
(***************************************************************************)
\* longest JSON array line the client sends
MaxBatch == 2
\* ListTools ranges over a Go map: the model lets it start the walk at any
\* of the first MaxRotation+1 positions of the registration order
MaxRotation == 1

\* the clock of the task store reads 0..MaxClock
MaxClock == 1

(***************************************************************************)
(* internal/mcp/types.go: ServerState                                      *)
(***************************************************************************)
StateCreated == 0
StateInitializing == 1
StateOperating == 2
StateShutdown == 3

(***************************************************************************)
(* internal/mcp/errors.go: error codes and constructors                    *)
(***************************************************************************)
CodeParseError == -32700
CodeInvalidRequest == -32600
CodeMethodNotFound == -32601
CodeInvalidParams == -32602
CodeInternalError == -32603

NoError == [kind |-> "absent"]

NewParseError(msg) == [kind |-> "error", code |-> CodeParseError, message |-> msg]

NewInvalidRequest(msg) == [kind |-> "error", code |-> CodeInvalidRequest, message |-> msg]

\* variant: the method-not-found message does not name the method
NewMethodNotFoundPlain(method) ==
  [kind |-> "error", code |-> CodeMethodNotFound, message |-> <<"method not found">>]

NewMethodNotFound(method) ==
  [kind |-> "error", code |-> CodeMethodNotFound,
   message |-> <<"method not found: ", method>>]

NewInvalidParams(msg) == [kind |-> "error", code |-> CodeInvalidParams, message |-> msg]

NewInternalError(msg) == [kind |-> "error", code |-> CodeInternalError, message |-> msg]

(***************************************************************************)
(* Raw JSON texts.  A nil json.RawMessage is the empty sequence.           *)
(***************************************************************************)
NilRaw == <<>>

\* the identifier texts the client uses: 1, "1" and "<"
NumberOne == <<"1">>
StringOne == <<"\"", "1", "\"">>
StringLt == <<"\"", "<", "\"">>

Ids == {NumberOne, StringOne, StringLt}

RawNull == <<"n", "u", "l", "l">>

\* encoding/json appendCompact with escapeHTML, as json.Marshal applies it to
\* the bytes a json.RawMessage returns from MarshalJSON: the characters <, >
\* and & are written as six-character \u00XX escapes; every other byte of a
\* scalar is copied
RECURSIVE appendCompact(_)
appendCompact(src) ==
  IF src = <<>> THEN <<>>
  ELSE LET c == Head(src)
           e == CASE c = "<" -> <<"\\", "u", "0", "0", "3", "c">>
                  [] c = ">" -> <<"\\", "u", "0", "0", "3", "e">>
                  [] c = "&" -> <<"\\", "u", "0", "0", "2", "6">>
                  [] OTHER -> <<c>>
       IN e \o appendCompact(Tail(src))

\* variant: the identifier goes through a numeric type, so that a string of
\* digits is written as a number
MarshalRawAsNumber(raw) ==
  IF raw = NilRaw THEN RawNull
  ELSE IF /\ Len(raw) >= 3
          /\ raw[1] = "\"" /\ raw[Len(raw)] = "\""
          /\ \A i \in 2..(Len(raw) - 1) :
               raw[i] \in {"0", "1", "2", "3", "4", "5", "6", "7", "8", "9"}
       THEN SubSeq(raw, 2, Len(raw) - 1)
       ELSE appendCompact(raw)

\* how json.Marshal writes a json.RawMessage field without omitempty
MarshalRaw(raw) == IF raw = NilRaw THEN RawNull ELSE appendCompact(raw)

(***************************************************************************)
(* internal/mcp/types.go: Request, Response and the payload types          *)
(***************************************************************************)
\* params payloads, by what json.Unmarshal makes of them
NoParams == [json |-> "absent", nameType |-> "missing", name |-> "", requestId |-> NilRaw]

ArrayParams == [json |-> "array", nameType |-> "missing", name |-> "", requestId |-> NilRaw]

EmptyObjectParams == [json |-> "object", nameType |-> "missing", name |-> "", requestId |-> NilRaw]

NumericNameParams == [json |-> "object", nameType |-> "number", name |-> "", requestId |-> NilRaw]

\* "params": null, kept by json.RawMessage as the four bytes null
NullParams == [json |-> "null", nameType |-> "missing", name |-> "", requestId |-> NilRaw]

\* "params": {"name": null}
NullNameParams == [json |-> "object", nameType |-> "null", name |-> "", requestId |-> NilRaw]

CallParams(n) == [json |-> "object", nameType |-> "string", name |-> n, requestId |-> NilRaw]

CancelledParams(rid) == [json |-> "object", nameType |-> "missing", name |-> "", requestId |-> rid]

Request(id, method, params) ==
  [jsonrpc |-> "2.0", id |-> id, method |-> method, params |-> params]

\* what the jsonrpc field of a Request holds when the member is missing
\* (the empty string) or names another version
WrongTags == {"", "1.0"}

\* variant: a message is a notification only if its method is one of the two
\* notification methods
IsNotificationByMethod(r) ==
  r.id = NilRaw /\ r.method \in {"notifications/initialized", "notifications/cancelled"}

IsNotification(r) == r.id = NilRaw

NoResult == [kind |-> "absent"]

NewResponse(id, result) == [jsonrpc |-> "2.0", id |-> id, result |-> result, error |-> NoError]

NewErrorResponse(id, e) == [jsonrpc |-> "2.0", id |-> id, result |-> NoResult, error |-> e]

\* json.Unmarshal(req.Params, &ToolCallParams{}): fails on absent params
\* (empty input), on an array, and on a name that is a number; a JSON null,
\* as the payload or as the name, has no effect on the target and is no error,
\* so Name stays the empty string
UnmarshalToolCallParams(p) ==
  IF p.json \notin {"object", "null"} \/ p.nameType = "number"
  THEN [err |-> TRUE, Name |-> ""]
  ELSE [err |-> FALSE, Name |-> p.name]

\* json.Unmarshal(req.Params, &CancelParams{})
UnmarshalCancelParams(p) ==
  IF p.json \notin {"object", "null"}
  THEN [err |-> TRUE, RequestID |-> NilRaw]
  ELSE [err |-> FALSE, RequestID |-> p.requestId]

InitializeResult ==
  [kind |-> "initialize",
   protocolVersion |-> "2025-03-26",
   capabilities |-> {"tools", "logging"},
   serverInfo |-> [name |-> "bossman", version |-> "0.1.0"]]

EmptyObject == [kind |-> "object"]

ToolsListResult(tools) == [kind |-> "tools", tools |-> tools]

ToolResult(text, isError) ==
  [kind |-> "tool", content |-> <<[type |-> "text", text |-> text]>>, isError |-> isError]

(***************************************************************************)
(* tools registry: the handler behind the ToolHandler boundary             *)
(***************************************************************************)
\* names in the order registerTaskTools and registerBlockerTools add them
ToolNames ==
  <<"create_task", "list_tasks", "get_task", "update_task", "delete_task",
    "add_blocker", "remove_blocker", "get_blockers">>

HasTool(name) == \E i \in 1..Len(ToolNames) : ToolNames[i] = name

Rotate(s, k) == [i \in 1..Len(s) |-> s[((i - 1 + k) % Len(s)) + 1]]

\* Registry.ListTools ranges over the map r.tools; Go starts a map walk at a
\* position of its choosing
ListToolsResults == {Rotate(ToolNames, k) : k \in 0..MaxRotation}

\* Registry.CallTool: a miss is an error; a registered tool runs and either
\* returns its result or fails
CallToolOutcomes(name) ==
  IF ~HasTool(name)
  THEN {[err |-> TRUE, text |-> <<"unknown tool: ", name>>]}
  ELSE {[err |-> FALSE, text |-> <<"result of ", name>>],
        [err |-> TRUE, text |-> <<"failure of ", name>>]}

(***************************************************************************)
(* What the client can write on the server's input                         *)
(***************************************************************************)
PlainMethods ==
  {"initialize", "ping", "tools/list", "notifications/initialized", "resources/list"}

Notifications ==
  {Request(NilRaw, m, NoParams) : m \in PlainMethods}
  \cup {Request(NilRaw, "tools/call", CallParams("list_tasks"))}
  \cup {Request(NilRaw, "notifications/cancelled", p) :
          p \in {ArrayParams, EmptyObjectParams} \cup {CancelledParams(i) : i \in Ids}}

Requests ==
  {Request(i, m, NoParams) : i \in Ids, m \in PlainMethods \cup {"notifications/cancelled"}}
  \cup {Request(i, "tools/call", p) :
          i \in Ids,
          p \in {NoParams, ArrayParams, NumericNameParams,
                 CallParams("list_tasks"), CallParams("nope")}}
  \cup {Request(NumberOne, "tools/call", p) : p \in {NullParams, NullNameParams}}
  \cup {Request(RawNull, m, NoParams) : m \in {"initialize", "ping"}}
  \cup {[Request(NumberOne, "initialize", NoParams) EXCEPT !.jsonrpc = t] :
          t \in WrongTags}

Messages == Notifications \cup Requests

\* the whole handshake and a first request in one batch
Handshake ==
  <<Request(NumberOne, "initialize", NoParams),
    Request(NilRaw, "notifications/initialized", NoParams),
    Request(StringOne, "tools/list", NoParams)>>

Batches == UNION {[1..n -> Messages] : n \in 0..MaxBatch} \cup {Handshake}

\* one line of input: a JSON object, a JSON array, a line that is not JSON,
\* a line of whitespace; or the end of the stream, cleanly or with an error
ObjectLine(m) == [wire |-> "object", msgs |-> <<m>>]

ArrayLine(ms) == [wire |-> "array", msgs |-> ms]

InvalidLine == [wire |-> "invalid", msgs |-> <<>>]

BlankLine == [wire |-> "blank", msgs |-> <<>>]

EndOfInput == [wire |-> "eof", msgs |-> <<>>]

StreamError == [wire |-> "ioerror", msgs |-> <<>>]

NoLine == [wire |-> "none", msgs |-> <<>>]

Lines ==
  {ObjectLine(m) : m \in Messages} \cup {ArrayLine(ms) : ms \in Batches}
  \cup {InvalidLine, BlankLine, EndOfInput, StreamError}

CancelLines ==
  {ObjectLine(m) : m \in {n \in Notifications : n.method = "notifications/cancelled"}}

(***************************************************************************)
(* Server.mu, the sync.Mutex that guards state and inflight                *)
(***************************************************************************)
Free == "free"

Held == "held"

\* Lock returns once the mutex is free, holding it
Lock(m) == Held

\* variant: the critical sections return without Unlock
UnlockForgotten(m) == m

Unlock(m) == Free

(***************************************************************************)
(* State                                                                   *)
(***************************************************************************)
VARIABLES
  state,      \* Server.state
  inflight,   \* Server.inflight: the keys that have a cancel function
  stdin,      \* the line the client has written and the scanner has not read
  scanner,    \* "open", or "failed" once Scan has stopped with an error
  pc,         \* where Run is: "read", "dispatch", "calltool", "write", "next", "returned"
  ret,        \* what Run returned: "none" while it runs, "nil" or "error"
  wire,       \* wire form of the line Run is working on
  msgs,       \* the requests ReadMessage returned
  idx,        \* index in msgs of the request being dispatched
  responses,  \* resp of the single branch, responses of the batch branch
  out,        \* what was written to the output since the last read
  called,     \* calls the last dispatch step made on the handler or a token
  inits,      \* number of initialize requests that were accepted
  acked,      \* a notifications/initialized was handled after an accepted initialize
  sentDuring, \* key of the tool call that was running when stdin was written
  mu          \* Server.mu: Free or Held

(***************************************************************************)
(* internal/db and the tools package: the task store                       *)
(***************************************************************************)
\* the identifiers NewTaskID issues, in the order it issues them
TaskIds == <<"task_a", "task_b">>

IdArguments == {TaskIds[i] : i \in 1..Len(TaskIds)}

NoId == ""

\* the values of the status column its CHECK constraint admits
Statuses == {"pending", "in_progress", "completed", "failed"}

\* the readings of the clock behind strftime('now')
Clock == 0..MaxClock

\* a member of a tool's arguments object: absent, the JSON null, or a value
Absent(d) == [given |-> "absent", v |-> d]

NullArgument(d) == [given |-> "null", v |-> d]

Value(v) == [given |-> "value", v |-> v]

\* json.Unmarshal into a pointer field: nil (the empty sequence) unless the
\* member carries a value
Ptr(f) == IF f.given = "value" THEN <<f.v>> ELSE <<>>

NoArguments ==
  [description |-> Absent(""), priority |-> Absent(0), status |-> Absent(""),
   context |-> Absent(""), result |-> Absent(""), limit |-> Absent(0)]

\* the optional members of update_task calls
UpdateArguments ==
  {NoArguments,
   [NoArguments EXCEPT !.description = Value("d1"), !.context = Value("c1")],
   [NoArguments EXCEPT !.priority = Value(1), !.status = Value("completed"),
                       !.result = Value("r1")],
   [NoArguments EXCEPT !.priority = Value(6)],
   [NoArguments EXCEPT !.status = Value("done")],
   [NoArguments EXCEPT !.result = NullArgument("")]}

\* the optional members of create_task calls besides parent_id
CreateArguments ==
  {[NoArguments EXCEPT !.priority = p] :
     p \in {Absent(0), Value(1), Value(0), Value(6)}}

\* the members of list_tasks calls besides parent_id
ListArguments ==
  {[NoArguments EXCEPT !.status = s, !.limit = l] :
     s \in {Absent(""), Value("completed")},
     l \in {Absent(0), Value(0), Value(0 - 1), Value(1)}}

\* what the member arguments of a tools/call can be when it is no JSON object:
\* absent, another JSON value such as an array, or the JSON null
NotObjects == {"absent", "array", "null"}

\* json.Unmarshal(args, &params) of a tool: an error unless the text is a JSON
\* object or the JSON null, which leaves params at its zero value
UnmarshalArguments(json) == [err |-> json \notin {"object", "null"}]

\* no tool call yet
NoCall == [tool |-> "none", a |-> NoId, b |-> NoId, args |-> NoArguments, json |-> "object"]

\* what a tool function returns: a result or an error, with its text
NoReply == [err |-> FALSE, text |-> <<>>]

VARIABLES
  tasks,        \* table tasks: the rows by id
  blockers,     \* table task_blockers: pairs <<task_id, blocked_by_id>>
  foreignKeys,  \* whether the connection enforces foreign keys
  created,      \* number of identifiers NewTaskID has issued
  now,          \* the clock
  call,         \* the tool call handled last: tool, id arguments, other arguments
  reply         \* what that call returned

storeVars == <<tasks, blockers, foreignKeys, created, now, call, reply>>

\* the store as the server specification carries it: never opened
NoStore ==
  /\ tasks = [i \in {} |-> 0]
  /\ blockers = {}
  /\ foreignKeys = FALSE
  /\ created = 0
  /\ now = 0
  /\ call = NoCall
  /\ reply = NoReply

serverVars ==
  <<state, inflight, stdin, scanner, pc, ret, wire, msgs, idx, responses, out,
    called, inits, acked, sentDuring, mu>>

vars == <<serverVars, storeVars>>

\* NewServer
Init ==
  /\ state = StateCreated
  /\ inflight = {}
  /\ stdin = NoLine
  /\ scanner = "open"
  /\ pc = "read"
  /\ ret = "none"
  /\ wire = "none"
  /\ msgs = <<>>
  /\ idx = 1
  /\ responses = <<>>
  /\ out = <<>>
  /\ called = {}
  /\ inits = 0
  /\ acked = FALSE
  /\ sentDuring = NilRaw
  /\ mu = Free
  /\ NoStore

(***************************************************************************)
(* The client                                                              *)
(***************************************************************************)
\* the client writes a line (or closes or breaks the stream) while the
\* server waits in ReadMessage
ClientSend ==
  /\ pc = "read"
  /\ scanner = "open"
  /\ stdin = NoLine
  /\ \E l \in Lines : stdin' = l
  /\ sentDuring' = NilRaw
  /\ UNCHANGED <<state, inflight, scanner, pc, ret, wire, msgs, idx, responses,
                 out, called, inits, acked>>
  /\ UNCHANGED mu
  /\ UNCHANGED storeVars

\* the client writes a notifications/cancelled line while a tool runs
ClientCancel ==
  /\ pc = "calltool"
  /\ stdin = NoLine
  /\ \E l \in CancelLines : stdin' = l
  /\ sentDuring' = msgs[idx].id
  /\ UNCHANGED <<state, inflight, scanner, pc, ret, wire, msgs, idx, responses,
                 out, called, inits, acked>>
  /\ UNCHANGED mu
  /\ UNCHANGED storeVars

(***************************************************************************)
(* Transport                                                               *)
(***************************************************************************)
\* variant: a line of whitespace is taken for the end of the input
ReadMessageBlankIsEOF(l, sc) ==
  CASE sc = "failed" \/ l.wire = "ioerror" ->
         [err |-> "transport", msgs |-> <<>>, text |-> "scanner error"]
    [] sc = "open" /\ l.wire \in {"eof", "blank"} ->
         [err |-> "EOF", msgs |-> <<>>, text |-> "EOF"]
    [] sc = "open" /\ l.wire = "invalid" ->
         [err |-> "parse", msgs |-> <<>>, text |-> "invalid character"]
    [] OTHER ->
         [err |-> "none", msgs |-> l.msgs, text |-> ""]

\* Transport.ReadMessage on the line l with the scanner in state sc: the
\* error it returns ("none", "EOF", "parse" or "transport"), the requests,
\* and the text of the error
ReadMessage(l, sc) ==
  CASE sc = "failed" \/ l.wire = "ioerror" ->
         [err |-> "transport", msgs |-> <<>>, text |-> "scanner error"]
    [] sc = "open" /\ l.wire = "eof" ->
         [err |-> "EOF", msgs |-> <<>>, text |-> "EOF"]
    [] sc = "open" /\ l.wire = "invalid" ->
         [err |-> "parse", msgs |-> <<>>, text |-> "invalid character"]
    [] sc = "open" /\ l.wire = "blank" ->
         [err |-> "parse", msgs |-> <<>>, text |-> "empty message"]
    [] OTHER ->
         [err |-> "none", msgs |-> l.msgs, text |-> ""]

\* json.Marshal of a Response
MarshalResponse(r) ==
  [jsonrpc |-> r.jsonrpc, id |-> MarshalRaw(r.id), result |-> r.result, error |-> r.error]

\* the line Transport.WriteResponse writes
WriteResponse(resp) == [form |-> "object", body |-> <<MarshalResponse(resp)>>]

\* the line Transport.WriteBatchResponse writes
WriteBatchResponse(rs) ==
  [form |-> "array", body |-> [i \in 1..Len(rs) |-> MarshalResponse(rs[i])]]

(***************************************************************************)
(* Server.Run: reading                                                     *)
(***************************************************************************)
\* Scan blocks until the client has written something, unless it has failed
CanRead == pc = "read" /\ (stdin # NoLine \/ scanner = "failed")

\* the scanner consumes the line
StartLine ==
  /\ stdin' = NoLine
  /\ sentDuring' = NilRaw
  /\ UNCHANGED <<idx, out, called>>

\* variant: Run returns nil at the end of the input and leaves the state as
\* it was
RunEOFKeepState ==
  /\ CanRead
  /\ ReadMessage(stdin, scanner).err = "EOF"
  /\ StartLine
  /\ pc' = "returned"
  /\ ret' = "nil"
  /\ wire' = stdin.wire
  /\ msgs' = <<>>
  /\ responses' = <<>>
  /\ UNCHANGED <<state, inflight, scanner, inits, acked>>
  /\ mu = Free
  /\ mu' = Unlock(Lock(mu))
  /\ UNCHANGED storeVars

\* err == io.EOF: the state becomes Shutdown and Run returns nil
RunEOF ==
  /\ CanRead
  /\ ReadMessage(stdin, scanner).err = "EOF"
  /\ StartLine
  /\ state' = StateShutdown
  /\ pc' = "returned"
  /\ ret' = "nil"
  /\ wire' = stdin.wire
  /\ msgs' = <<>>
  /\ responses' = <<>>
  /\ UNCHANGED <<inflight, scanner, inits, acked>>
  /\ mu = Free
  /\ mu' = Unlock(Lock(mu))
  /\ UNCHANGED storeVars

\* variant: Run returns the error of ReadMessage instead of answering it
RunReadErrorReturns ==
  /\ CanRead
  /\ LET r == ReadMessage(stdin, scanner) IN
       /\ r.err \in {"parse", "transport"}
       /\ scanner' = IF r.err = "transport" THEN "failed" ELSE scanner
  /\ StartLine
  /\ pc' = "returned"
  /\ ret' = "error"
  /\ wire' = IF scanner = "failed" THEN "ioerror" ELSE stdin.wire
  /\ msgs' = <<>>
  /\ responses' = <<>>
  /\ UNCHANGED <<state, inflight, inits, acked>>
  /\ UNCHANGED mu
  /\ UNCHANGED storeVars

\* err != nil: Run answers with a null identifier and -32700 and continues,
\* whether the line could not be parsed or the scanner stopped with an error
RunReadError ==
  /\ CanRead
  /\ LET r == ReadMessage(stdin, scanner) IN
       /\ r.err \in {"parse", "transport"}
       /\ scanner' = IF r.err = "transport" THEN "failed" ELSE scanner
       /\ responses' = <<NewErrorResponse(NilRaw, NewParseError(r.text))>>
  /\ StartLine
  /\ pc' = "write"
  /\ wire' = IF scanner = "failed" THEN "ioerror" ELSE stdin.wire
  /\ msgs' = <<>>
  /\ UNCHANGED <<state, inflight, ret, inits, acked>>
  /\ UNCHANGED mu
  /\ UNCHANGED storeVars

\* ReadMessage returned the requests of the line
RunRead ==
  /\ CanRead
  /\ LET r == ReadMessage(stdin, scanner) IN
       /\ r.err = "none"
       /\ msgs' = r.msgs
       /\ pc' = IF Len(r.msgs) = 0 THEN "next" ELSE "dispatch"
  /\ StartLine
  /\ wire' = stdin.wire
  /\ responses' = <<>>
  /\ UNCHANGED <<state, inflight, scanner, ret, inits, acked>>
  /\ UNCHANGED mu
  /\ UNCHANGED storeVars

(***************************************************************************)
(* Server.dispatch and the handlers                                        *)
(***************************************************************************)
\* variant: initialize is refused only once the server is Operating
InitializeAllowedUntilOperating(st) == st # StateOperating

\* variant: initialize is accepted in every state
InitializeAllowedAlways(st) == TRUE

\* the state check of "initialize"
InitializeAllowed(st) == st = StateCreated

\* variant: the tools are open as soon as initialize was accepted
ToolsAllowedAfterInitialize(st) == st \in {StateInitializing, StateOperating}

\* variant: handleInitialize opens the server at once
AfterInitializeOperating(st) == StateOperating

\* the state handleInitialize sets
AfterInitialize(st) == StateInitializing

\* the state check of "tools/list" and "tools/call"
ToolsAllowed(st) == st = StateOperating

\* variant: notifications/initialized opens the server from any state
AfterInitializedAlways(st) == StateOperating

\* variant: notifications/initialized moves the server to Operating from
\* Created as well
AfterInitializedFromCreated(st) ==
  IF st \in {StateCreated, StateInitializing} THEN StateOperating ELSE st

\* variant: the transition is not made, later messages see the old state
AfterInitializedIgnored(st) == st

\* the state after a notifications/initialized handled in state st
AfterInitialized(st) == IF st = StateInitializing THEN StateOperating ELSE st

\* variant: the batch branch writes its list without looking at its length
CollectAlwaysWriteBatch(rs) ==
  /\ responses' = responses \o rs
  /\ idx' = idx + 1
  /\ pc' = IF idx < Len(msgs) THEN "dispatch"
           ELSE IF Len(responses \o rs) > 0 \/ Len(msgs) > 1 THEN "write" ELSE "next"

\* variant: a response is put in front of the ones collected before
CollectInFront(rs) ==
  /\ responses' = rs \o responses
  /\ idx' = idx + 1
  /\ pc' = IF idx < Len(msgs) THEN "dispatch"
           ELSE IF Len(rs \o responses) > 0 THEN "write" ELSE "next"

\* Run takes what dispatch returned (rs is empty for nil, else one response)
\* and goes on to the next request of the line, to the write, or to the
\* end of the loop body
Collect(rs) ==
  /\ responses' = responses \o rs
  /\ idx' = idx + 1
  /\ pc' = IF idx < Len(msgs) THEN "dispatch"
           ELSE IF Len(responses \o rs) > 0 THEN "write" ELSE "next"

\* variant: the switch on the method comes before the test for an identifier
DispatchingByMethod(methods) ==
  /\ pc = "dispatch"
  /\ msgs[idx].method \in methods

\* dispatch has passed the test for a notification and its switch takes the
\* case of one of the methods
Dispatching(methods) ==
  /\ pc = "dispatch"
  /\ ~IsNotification(msgs[idx])
  /\ msgs[idx].method \in methods

\* variant: a cancellation whose params cannot be decoded is answered with
\* an invalid-params error
DispatchNotificationAnswersMalformed ==
  /\ pc = "dispatch"
  /\ IsNotification(msgs[idx])
  /\ LET req == msgs[idx]
         params == UnmarshalCancelParams(req.params)
         key == params.RequestID
     IN
       /\ state' = IF req.method = "notifications/initialized"
                   THEN AfterInitialized(state) ELSE state
       /\ acked' = (acked \/ (req.method = "notifications/initialized" /\ inits > 0))
       /\ IF req.method = "notifications/cancelled" /\ ~params.err /\ key \in inflight
          THEN inflight' = inflight \ {key} /\ called' = {<<"cancel", key>>}
          ELSE inflight' = inflight /\ called' = {}
       /\ IF req.method = "notifications/cancelled" /\ params.err
          THEN Collect(<<NewErrorResponse(NilRaw, NewInvalidParams("json: cannot unmarshal"))>>)
          ELSE Collect(<<>>)
  /\ UNCHANGED <<stdin, scanner, ret, wire, msgs, out, inits, sentDuring>>
  /\ LET locks == \/ msgs[idx].method = "notifications/initialized"
                  \/ /\ msgs[idx].method = "notifications/cancelled"
                     /\ ~UnmarshalCancelParams(msgs[idx].params).err
     IN /\ locks => mu = Free
        /\ mu' = IF locks THEN Unlock(Lock(mu)) ELSE mu
  /\ UNCHANGED storeVars

\* Server.handleNotification, called by dispatch for a request without id
DispatchNotification ==
  /\ pc = "dispatch"
  /\ IsNotification(msgs[idx])
  /\ LET req == msgs[idx]
         params == UnmarshalCancelParams(req.params)
         key == params.RequestID
     IN
       /\ state' = IF req.method = "notifications/initialized"
                   THEN AfterInitialized(state) ELSE state
       /\ acked' = (acked \/ (req.method = "notifications/initialized" /\ inits > 0))
       /\ IF req.method = "notifications/cancelled" /\ ~params.err /\ key \in inflight
          THEN inflight' = inflight \ {key} /\ called' = {<<"cancel", key>>}
          ELSE inflight' = inflight /\ called' = {}
  /\ Collect(<<>>)
  /\ UNCHANGED <<stdin, scanner, ret, wire, msgs, out, inits, sentDuring>>
  /\ LET locks == \/ msgs[idx].method = "notifications/initialized"
                  \/ /\ msgs[idx].method = "notifications/cancelled"
                     /\ ~UnmarshalCancelParams(msgs[idx].params).err
     IN /\ locks => mu = Free
        /\ mu' = IF locks THEN Unlock(Lock(mu)) ELSE mu
  /\ UNCHANGED storeVars

\* "initialize": refused unless the state is Created, else handleInitialize
DispatchInitialize ==
  /\ Dispatching({"initialize"})
  /\ LET req == msgs[idx] IN
       IF ~InitializeAllowed(state)
       THEN /\ Collect(<<NewErrorResponse(req.id, NewInvalidRequest("already initialized"))>>)
            /\ UNCHANGED <<state, inits>>
       ELSE /\ state' = AfterInitialize(state)
            /\ inits' = inits + 1
            /\ Collect(<<NewResponse(req.id, InitializeResult)>>)
  /\ called' = {}
  /\ UNCHANGED <<inflight, stdin, scanner, ret, wire, msgs, out, acked, sentDuring>>
  /\ mu = Free
  /\ mu' = IF InitializeAllowed(state)
           THEN Unlock(Lock(Unlock(Lock(mu)))) ELSE Unlock(Lock(mu))
  /\ UNCHANGED storeVars

\* variant: ping is held to the Operating state like the tool methods
DispatchPingWhenOperating ==
  /\ Dispatching({"ping"})
  /\ IF state = StateOperating
     THEN Collect(<<NewResponse(msgs[idx].id, EmptyObject)>>)
     ELSE Collect(<<NewErrorResponse(msgs[idx].id, NewInvalidRequest("server not initialized"))>>)
  /\ called' = {}
  /\ UNCHANGED <<state, inflight, stdin, scanner, ret, wire, msgs, out, inits, acked,
                 sentDuring>>
  /\ mu = Free
  /\ mu' = Unlock(Lock(mu))
  /\ UNCHANGED storeVars

\* "ping"
DispatchPing ==
  /\ Dispatching({"ping"})
  /\ Collect(<<NewResponse(msgs[idx].id, EmptyObject)>>)
  /\ called' = {}
  /\ UNCHANGED <<state, inflight, stdin, scanner, ret, wire, msgs, out, inits, acked,
                 sentDuring>>
  /\ mu = Free
  /\ mu' = Unlock(Lock(mu))
  /\ UNCHANGED storeVars

\* "tools/list": refused unless the state is Operating, else handleToolsList
DispatchToolsList ==
  /\ Dispatching({"tools/list"})
  /\ LET req == msgs[idx] IN
       IF ~ToolsAllowed(state)
       THEN /\ Collect(<<NewErrorResponse(req.id, NewInvalidRequest("server not initialized"))>>)
            /\ called' = {}
       ELSE /\ \E tools \in ListToolsResults :
                 Collect(<<NewResponse(req.id, ToolsListResult(tools))>>)
            /\ called' = {<<"ListTools">>}
  /\ UNCHANGED <<state, inflight, stdin, scanner, ret, wire, msgs, out, inits, acked,
                 sentDuring>>
  /\ mu = Free
  /\ mu' = Unlock(Lock(mu))
  /\ UNCHANGED storeVars

\* "tools/call": refused unless the state is Operating; else handleToolsCall
\* up to the call of the handler: bad params are answered with -32602, good
\* ones put the cancel function in the in-flight table and start the tool
DispatchToolsCall ==
  /\ Dispatching({"tools/call"})
  /\ LET req == msgs[idx]
         params == UnmarshalToolCallParams(req.params)
     IN
       IF ~ToolsAllowed(state)
       THEN /\ Collect(<<NewErrorResponse(req.id, NewInvalidRequest("server not initialized"))>>)
            /\ called' = {}
            /\ UNCHANGED inflight
       ELSE IF params.err
       THEN /\ Collect(<<NewErrorResponse(req.id, NewInvalidParams("json: cannot unmarshal"))>>)
            /\ called' = {}
            /\ UNCHANGED inflight
       ELSE /\ inflight' = inflight \cup {req.id}
            /\ called' = {<<"CallTool", params.Name>>}
            /\ pc' = "calltool"
            /\ UNCHANGED <<responses, idx>>
  /\ UNCHANGED <<state, stdin, scanner, ret, wire, msgs, out, inits, acked, sentDuring>>
  /\ mu = Free
  /\ mu' = IF ToolsAllowed(state) /\ ~UnmarshalToolCallParams(msgs[idx].params).err
           THEN Unlock(Lock(Unlock(Lock(mu)))) ELSE Unlock(Lock(mu))
  /\ UNCHANGED storeVars

\* variant: an error of the tool is reported as a JSON-RPC internal error
ToolCallResponseProtocolError(id, o) ==
  IF o.err
  THEN NewErrorResponse(id, NewInternalError(o.text))
  ELSE NewResponse(id, ToolResult(o.text, FALSE))

\* what handleToolsCall returns for the outcome o of CallTool: an error is
\* replaced by a tool result with isError and one text block holding
\* err.Error(); the result is marshalled into a success response
ToolCallResponse(id, o) == NewResponse(id, ToolResult(o.text, o.err))

\* variant: handleToolsCall leaves its entry in the in-flight table
CallToolReturnKeepsEntry ==
  /\ pc = "calltool"
  /\ LET req == msgs[idx]
         params == UnmarshalToolCallParams(req.params)
     IN
       \E o \in CallToolOutcomes(params.Name) :
         Collect(<<ToolCallResponse(req.id, o)>>)
  /\ UNCHANGED <<state, inflight, stdin, scanner, ret, wire, msgs, out, called, inits,
                 acked, sentDuring>>
  /\ mu = Free
  /\ mu' = Unlock(Lock(mu))
  /\ UNCHANGED storeVars

\* handleToolsCall from the return of CallTool on: the entry leaves the
\* in-flight table, an error of the tool becomes a result with isError
CallToolReturn ==
  /\ pc = "calltool"
  /\ LET req == msgs[idx]
         params == UnmarshalToolCallParams(req.params)
     IN
       \E o \in CallToolOutcomes(params.Name) :
         /\ inflight' = inflight \ {req.id}
         /\ Collect(<<ToolCallResponse(req.id, o)>>)
  /\ UNCHANGED <<state, stdin, scanner, ret, wire, msgs, out, called, inits, acked,
                 sentDuring>>
  /\ mu = Free
  /\ mu' = Unlock(Lock(mu))
  /\ UNCHANGED storeVars

\* any other method name
DispatchUnknown ==
  /\ pc = "dispatch"
  /\ ~IsNotification(msgs[idx])
  /\ msgs[idx].method \notin {"initialize", "ping", "tools/list", "tools/call"}
  /\ Collect(<<NewErrorResponse(msgs[idx].id, NewMethodNotFound(msgs[idx].method))>>)
  /\ called' = {}
  /\ UNCHANGED <<state, inflight, stdin, scanner, ret, wire, msgs, out, inits, acked,
                 sentDuring>>
  /\ mu = Free
  /\ mu' = Unlock(Lock(mu))
  /\ UNCHANGED storeVars

(***************************************************************************)
(* Server.Run: writing                                                     *)
(***************************************************************************)
\* the line Run hands to the transport: WriteResponse for the parse error
\* and for len(msgs) == 1, WriteBatchResponse otherwise
RunOutput ==
  IF Len(msgs) <= 1 THEN WriteResponse(responses[1]) ELSE WriteBatchResponse(responses)

\* variant: a failed write is dropped and the loop goes on
RunWriteIgnoresError ==
  /\ pc = "write"
  /\ \E ok \in BOOLEAN :
       out' = IF ok THEN Append(out, RunOutput) ELSE out
  /\ pc' = "next"
  /\ UNCHANGED <<state, inflight, stdin, scanner, ret, wire, msgs, idx, responses, called,
                 inits, acked, sentDuring>>
  /\ UNCHANGED mu
  /\ UNCHANGED storeVars

\* the write succeeds and the loop body ends, or the writer fails and Run
\* returns the error
RunWrite ==
  /\ pc = "write"
  /\ \E ok \in BOOLEAN :
       IF ok
       THEN /\ out' = Append(out, RunOutput)
            /\ pc' = "next"
            /\ UNCHANGED ret
       ELSE /\ pc' = "returned"
            /\ ret' = "error"
            /\ UNCHANGED out
  /\ UNCHANGED <<state, inflight, stdin, scanner, wire, msgs, idx, responses, called,
                 inits, acked, sentDuring>>
  /\ UNCHANGED mu
  /\ UNCHANGED storeVars

\* the loop body ends and Run starts the next iteration: the locals of the
\* iteration go out of scope, and the record of what the line produced with
\* them
RunLoop ==
  /\ pc = "next"
  /\ pc' = "read"
  /\ wire' = "none"
  /\ msgs' = <<>>
  /\ idx' = 1
  /\ responses' = <<>>
  /\ out' = <<>>
  /\ called' = {}
  /\ UNCHANGED <<state, inflight, stdin, scanner, ret, inits, acked, sentDuring>>
  /\ UNCHANGED mu
  /\ UNCHANGED storeVars

Next ==
  \/ ClientSend
  \/ ClientCancel
  \/ RunEOF
  \/ RunReadError
  \/ RunRead
  \/ DispatchNotification
  \/ DispatchInitialize
  \/ DispatchPing
  \/ DispatchToolsList
  \/ DispatchToolsCall
  \/ CallToolReturn
  \/ DispatchUnknown
  \/ RunWrite
  \/ RunLoop

Spec == Init /\ [][Next]_vars

TypeOK ==
  /\ state \in {StateCreated, StateInitializing, StateOperating, StateShutdown}
  /\ inflight \subseteq Ids
  /\ pc \in {"read", "dispatch", "calltool", "write", "next", "returned"}
  /\ ret \in {"none", "nil", "error"}
  /\ idx \in 1..(Len(msgs) + 1)
  /\ Len(responses) <= Len(msgs) + 1
  /\ mu \in {Free, Held}

(***************************************************************************)
(* internal/db: the statements, by what SQLite does with them              *)
(***************************************************************************)
\* variant: the column priority has no CHECK
CheckTaskStatus(t) == t.status \in Statuses

\* the CHECK constraints of table tasks
CheckTask(t) == t.priority \in 1..5 /\ t.status \in Statuses

\* InsertTask: id, description, parent_id, priority and context are given,
\* the other columns take their defaults; the row is refused by a CHECK
\* constraint or, with foreign keys enforced, by a parent that is no task
InsertTask(t, clock) ==
  LET row == [parent_id |-> t.parent_id, description |-> t.description,
              context |-> t.context, priority |-> t.priority,
              status |-> "pending", result |-> <<>>,
              created_at |-> clock, started_at |-> <<>>, completed_at |-> <<>>,
              updated_at |-> clock]
  IN
    IF \/ ~CheckTask(row)
       \/ foreignKeys /\ row.parent_id # <<>> /\ row.parent_id[1] \notin DOMAIN tasks
    THEN [err |-> "constraint failed", tasks |-> tasks]
    ELSE [err |-> "",
          tasks |-> [i \in DOMAIN tasks \cup {t.id} |->
                       IF i = t.id THEN row ELSE tasks[i]]]

\* variant: the UPDATE writes all five columns, the zero value for an option
\* that is nil
UpdateTaskOverwrites(id, opts, clock) ==
  IF id \notin DOMAIN tasks
  THEN [err |-> "sql: no rows in result set", tasks |-> tasks]
  ELSE
    LET row == [tasks[id] EXCEPT
                  !.updated_at = clock,
                  !.description = IF opts.description # <<>> THEN opts.description[1] ELSE "",
                  !.priority = IF opts.priority # <<>> THEN opts.priority[1] ELSE 3,
                  !.status = IF opts.status # <<>> THEN opts.status[1] ELSE "pending",
                  !.context = IF opts.context # <<>> THEN opts.context[1] ELSE "",
                  !.result = opts.result]
    IN
      IF ~CheckTask(row)
      THEN [err |-> "constraint failed", tasks |-> tasks]
      ELSE [err |-> "", tasks |-> [tasks EXCEPT ![id] = row]]

\* UpdateTask: one UPDATE that sets updated_at and the columns whose option
\* is not nil; no row with the id is sql.ErrNoRows, a row that breaks a CHECK
\* constraint fails the statement and changes nothing
UpdateTask(id, opts, clock) ==
  IF id \notin DOMAIN tasks
  THEN [err |-> "sql: no rows in result set", tasks |-> tasks]
  ELSE
    LET row == [tasks[id] EXCEPT
                  !.updated_at = clock,
                  !.description = IF opts.description # <<>> THEN opts.description[1] ELSE @,
                  !.priority = IF opts.priority # <<>> THEN opts.priority[1] ELSE @,
                  !.status = IF opts.status # <<>> THEN opts.status[1] ELSE @,
                  !.context = IF opts.context # <<>> THEN opts.context[1] ELSE @,
                  !.result = IF opts.result # <<>> THEN opts.result ELSE @]
    IN
      IF ~CheckTask(row)
      THEN [err |-> "constraint failed", tasks |-> tasks]
      ELSE [err |-> "", tasks |-> [tasks EXCEPT ![id] = row]]

\* DeleteTask: no row is sql.ErrNoRows. With foreign keys enforced the
\* statement fails while another task names the row as its parent, and
\* otherwise takes the row's edges with it (ON DELETE CASCADE); without, it
\* removes the row and nothing else
DeleteTask(id) ==
  IF id \notin DOMAIN tasks
  THEN [err |-> "sql: no rows in result set", tasks |-> tasks, blockers |-> blockers]
  ELSE IF foreignKeys /\ \E i \in DOMAIN tasks : i # id /\ tasks[i].parent_id = <<id>>
  THEN [err |-> "constraint failed", tasks |-> tasks, blockers |-> blockers]
  ELSE [err |-> "",
        tasks |-> [i \in DOMAIN tasks \ {id} |-> tasks[i]],
        blockers |-> IF foreignKeys
                     THEN {e \in blockers : e[1] # id /\ e[2] # id}
                     ELSE blockers]

\* variant: the table has no CHECK (task_id != blocked_by_id)
AddBlockerUnchecked(taskID, blockedByID) ==
  IF \/ <<taskID, blockedByID>> \in blockers
     \/ foreignKeys /\ ~({taskID, blockedByID} \subseteq DOMAIN tasks)
  THEN [err |-> "constraint failed", blockers |-> blockers]
  ELSE [err |-> "", blockers |-> blockers \cup {<<taskID, blockedByID>>}]

\* AddBlocker: the INSERT fails on the primary key, on the CHECK
\* (task_id != blocked_by_id) and, with foreign keys enforced, on an id that
\* is no task
AddBlocker(taskID, blockedByID) ==
  IF \/ <<taskID, blockedByID>> \in blockers
     \/ taskID = blockedByID
     \/ foreignKeys /\ ~({taskID, blockedByID} \subseteq DOMAIN tasks)
  THEN [err |-> "constraint failed", blockers |-> blockers]
  ELSE [err |-> "", blockers |-> blockers \cup {<<taskID, blockedByID>>}]

\* RemoveBlocker: no such edge is sql.ErrNoRows
RemoveBlocker(taskID, blockedByID) ==
  IF <<taskID, blockedByID>> \notin blockers
  THEN [err |-> "sql: no rows in result set", blockers |-> blockers]
  ELSE [err |-> "", blockers |-> blockers \ {<<taskID, blockedByID>>}]

\* the rows QueryTasks selects: the status and parent_id conditions are part
\* of the statement only when the option is not nil
Selected(opts) ==
  {i \in DOMAIN tasks :
     /\ opts.status = <<>> \/ tasks[i].status = opts.status[1]
     /\ opts.parent_id = <<>> \/ tasks[i].parent_id = opts.parent_id}

\* variant: ORDER BY priority ASC, created_at ASC
QueryTasksOldestFirst(opts) ==
  LET selected == Selected(opts)
      n == Cardinality(selected)
      ordered == {s \in [1..n -> selected] :
                    /\ \A i, j \in 1..n : i # j => s[i] # s[j]
                    /\ \A i, j \in 1..n : i < j =>
                         \/ tasks[s[i]].priority < tasks[s[j]].priority
                         \/ /\ tasks[s[i]].priority = tasks[s[j]].priority
                            /\ tasks[s[i]].created_at <= tasks[s[j]].created_at}
  IN {IF opts.limit > 0 /\ opts.limit < n THEN SubSeq(s, 1, opts.limit) ELSE s :
        s \in ordered}

\* QueryTasks: the results the statement may give, as sequences of ids. ORDER
\* BY priority ASC, created_at DESC leaves the order of rows equal in both
\* columns to SQLite; LIMIT is part of the statement only when opts.Limit > 0
QueryTasks(opts) ==
  LET selected == Selected(opts)
      n == Cardinality(selected)
      ordered == {s \in [1..n -> selected] :
                    /\ \A i, j \in 1..n : i # j => s[i] # s[j]
                    /\ \A i, j \in 1..n : i < j =>
                         \/ tasks[s[i]].priority < tasks[s[j]].priority
                         \/ /\ tasks[s[i]].priority = tasks[s[j]].priority
                            /\ tasks[s[i]].created_at >= tasks[s[j]].created_at}
  IN {IF opts.limit > 0 /\ opts.limit < n THEN SubSeq(s, 1, opts.limit) ELSE s :
        s \in ordered}

\* resultJSON of a []Task: a nil slice marshals to null, any other to an
\* array of the tasks in the order of the slice
TasksJSON(ids) == IF ids = <<>> THEN <<"null">> ELSE <<"[">> \o ids \o <<"]">>

(***************************************************************************)
(* tools: the handlers the registry invokes                                *)
(***************************************************************************)
\* the tool reads the clock: the time of the last reading or a later one
ReadClock(clock) == clock \in {now, now + 1} /\ now' = clock

\* Registry.createTask: a new identifier, priority 3 unless given; the
\* parent_id the client sends is none or an identifier it has been given
createTask ==
  /\ created < Len(TaskIds)
  /\ \E parent \in {NoId} \cup {TaskIds[i] : i \in 1..created},
        args \in CreateArguments, clock \in Clock :
       LET priority == Ptr(args.priority)
           task == [id |-> TaskIds[created + 1],
                    description |-> "d0",
                    parent_id |-> IF parent = NoId THEN <<>> ELSE <<parent>>,
                    priority |-> IF priority # <<>> THEN priority[1] ELSE 3,
                    context |-> ""]
           r == InsertTask(task, clock)
       IN
         /\ ReadClock(clock)
         /\ call' = [tool |-> "create_task", a |-> parent, b |-> NoId, args |-> args, json |-> "object"]
         /\ tasks' = r.tasks
         /\ reply' = IF r.err # ""
                     THEN [err |-> TRUE, text |-> <<"insert task: ", r.err>>]
                     ELSE [err |-> FALSE, text |-> <<"task", task.id>>]
  /\ created' = created + 1
  /\ UNCHANGED <<blockers, foreignKeys>>
  /\ UNCHANGED serverVars

\* Registry.updateTask
updateTask ==
  /\ \E id \in IdArguments, args \in UpdateArguments, clock \in Clock :
       LET opts == [description |-> Ptr(args.description),
                    priority |-> Ptr(args.priority),
                    status |-> Ptr(args.status),
                    context |-> Ptr(args.context),
                    result |-> Ptr(args.result)]
           r == UpdateTask(id, opts, clock)
       IN
         /\ ReadClock(clock)
         /\ call' = [tool |-> "update_task", a |-> id, b |-> NoId, args |-> args, json |-> "object"]
         /\ tasks' = r.tasks
         /\ reply' = IF r.err = "sql: no rows in result set"
                     THEN [err |-> TRUE, text |-> <<"task not found: ", id>>]
                     ELSE IF r.err # ""
                     THEN [err |-> TRUE, text |-> <<"update task: ", r.err>>]
                     ELSE [err |-> FALSE, text |-> <<"task", id>>]
  /\ UNCHANGED <<blockers, foreignKeys, created>>
  /\ UNCHANGED serverVars

\* Registry.deleteTask
deleteTask ==
  /\ \E id \in IdArguments :
       LET r == DeleteTask(id) IN
         /\ call' = [tool |-> "delete_task", a |-> id, b |-> NoId, args |-> NoArguments, json |-> "object"]
         /\ tasks' = r.tasks
         /\ blockers' = r.blockers
         /\ reply' = IF r.err = "sql: no rows in result set"
                     THEN [err |-> TRUE, text |-> <<"task not found: ", id>>]
                     ELSE IF r.err # ""
                     THEN [err |-> TRUE, text |-> <<"delete task: ", r.err>>]
                     ELSE [err |-> FALSE, text |-> <<"deleted", id>>]
  /\ UNCHANGED <<foreignKeys, created, now>>
  /\ UNCHANGED serverVars

\* Registry.addBlocker
addBlocker ==
  /\ \E taskID \in IdArguments, blockedByID \in IdArguments :
       LET r == AddBlocker(taskID, blockedByID) IN
         /\ call' = [tool |-> "add_blocker", a |-> taskID, b |-> blockedByID,
                     args |-> NoArguments, json |-> "object"]
         /\ blockers' = r.blockers
         /\ reply' = IF r.err # ""
                     THEN [err |-> TRUE, text |-> <<"add blocker: ", r.err>>]
                     ELSE [err |-> FALSE, text |-> <<"added", taskID, blockedByID>>]
  /\ UNCHANGED <<tasks, foreignKeys, created, now>>
  /\ UNCHANGED serverVars

\* Registry.removeBlocker
removeBlocker ==
  /\ \E taskID \in IdArguments, blockedByID \in IdArguments :
       LET r == RemoveBlocker(taskID, blockedByID) IN
         /\ call' = [tool |-> "remove_blocker", a |-> taskID, b |-> blockedByID,
                     args |-> NoArguments, json |-> "object"]
         /\ blockers' = r.blockers
         /\ reply' = IF r.err = "sql: no rows in result set"
                     THEN [err |-> TRUE, text |-> <<"blocker not found: ", taskID, blockedByID>>]
                     ELSE [err |-> FALSE, text |-> <<"removed", taskID, blockedByID>>]
  /\ UNCHANGED <<tasks, foreignKeys, created, now>>
  /\ UNCHANGED serverVars

\* Registry.listTasks: Limit is an int, 0 when the member is absent
listTasks ==
  /\ \E parent \in {NoId, TaskIds[1]}, args \in ListArguments :
       LET opts == [status |-> Ptr(args.status),
                    parent_id |-> IF parent = NoId THEN <<>> ELSE <<parent>>,
                    limit |-> args.limit.v]
       IN \E ids \in QueryTasks(opts) :
            /\ call' = [tool |-> "list_tasks", a |-> parent, b |-> NoId, args |-> args, json |-> "object"]
            /\ reply' = [err |-> FALSE, text |-> TasksJSON(ids)]
  /\ UNCHANGED <<tasks, blockers, foreignKeys, created, now>>
  /\ UNCHANGED serverVars

\* the tools called with arguments that are no JSON object: each returns
\* "invalid arguments" when json.Unmarshal fails, and otherwise runs on the
\* zero value of its params: create_task inserts a task with the empty
\* description, list_tasks lists without filter or limit, get_blockers selects
\* the blockers of the task "", the others look for the id ""
argumentsNotObject ==
  /\ \E i \in 1..Len(ToolNames), json \in NotObjects, clock \in Clock :
       LET tool == ToolNames[i]
           invalid == UnmarshalArguments(json).err
           task == [id |-> IF created < Len(TaskIds) THEN TaskIds[created + 1] ELSE NoId,
                    description |-> "", parent_id |-> <<>>, priority |-> 3,
                    context |-> ""]
           insert == InsertTask(task, clock)
           add == AddBlocker(NoId, NoId)
           opts == [status |-> <<>>, parent_id |-> <<>>, limit |-> 0]
           creates == ~invalid /\ tool = "create_task"
       IN
         /\ creates => created < Len(TaskIds)
         /\ IF creates THEN ReadClock(clock) ELSE clock = now /\ now' = now
         /\ created' = IF creates THEN created + 1 ELSE created
         /\ tasks' = IF creates THEN insert.tasks ELSE tasks
         /\ blockers' = IF ~invalid /\ tool = "add_blocker" THEN add.blockers ELSE blockers
         /\ call' = [tool |-> tool, a |-> NoId, b |-> NoId, args |-> NoArguments,
                     json |-> json]
         /\ \E ids \in QueryTasks(opts) :
              reply' =
                IF invalid THEN [err |-> TRUE, text |-> <<"invalid arguments: ", json>>]
                ELSE CASE tool = "create_task" ->
                            IF insert.err # ""
                            THEN [err |-> TRUE, text |-> <<"insert task: ", insert.err>>]
                            ELSE [err |-> FALSE, text |-> <<"task", task.id>>]
                       [] tool = "list_tasks" -> [err |-> FALSE, text |-> TasksJSON(ids)]
                       [] tool = "get_blockers" -> [err |-> FALSE, text |-> TasksJSON(<<>>)]
                       [] tool = "add_blocker" ->
                            IF add.err # ""
                            THEN [err |-> TRUE, text |-> <<"add blocker: ", add.err>>]
                            ELSE [err |-> FALSE, text |-> <<"added", NoId, NoId>>]
                       [] tool = "remove_blocker" ->
                            [err |-> TRUE, text |-> <<"blocker not found: ", NoId, NoId>>]
                       [] OTHER -> [err |-> TRUE, text |-> <<"task not found: ", NoId>>]
  /\ UNCHANGED foreignKeys
  /\ UNCHANGED serverVars

\* InitDB on a new database file, and a server that handles tool calls. The
\* connection string asks for foreign keys with the parameter _foreign_keys;
\* whether the driver turns them on is a property of the build
StoreInit ==
  /\ tasks = [i \in {} |-> 0]
  /\ blockers = {}
  /\ foreignKeys \in BOOLEAN
  /\ created = 0
  /\ now = 0
  /\ call = NoCall
  /\ reply = NoReply
  /\ state = StateOperating
  /\ inflight = {}
  /\ stdin = NoLine
  /\ scanner = "open"
  /\ pc = "calltool"
  /\ ret = "none"
  /\ wire = "object"
  /\ msgs = <<Request(NumberOne, "tools/call", NoParams)>>
  /\ idx = 1
  /\ responses = <<>>
  /\ out = <<>>
  /\ called = {}
  /\ inits = 1
  /\ acked = TRUE
  /\ sentDuring = NilRaw
  /\ mu = Free

StoreNext ==
  \/ createTask
  \/ updateTask
  \/ deleteTask
  \/ addBlocker
  \/ removeBlocker

StoreSpec == StoreInit /\ [][StoreNext]_vars

\* the same store under calls of the tools that write tasks and of list_tasks
QueryNext ==
  \/ createTask
  \/ updateTask
  \/ listTasks

QuerySpec == StoreInit /\ [][QueryNext]_vars

\* the same store under well-formed calls that fill it and calls whose
\* arguments are no JSON object
ArgumentsNext ==
  \/ createTask
  \/ addBlocker
  \/ argumentsNotObject

ArgumentsSpec == StoreInit /\ [][ArgumentsNext]_vars

(***************************************************************************)
(* Properties                                                              *)
(***************************************************************************)

\* C1: over any input the lifecycle state never moves backward in the order
\* Created < Initializing < Operating < Shutdown; an initialize request in
\* Initializing or Operating does not reset it to Initializing.
C1_StateMonotonic == [][state' >= state]_vars

\* an initialize request was dispatched in Operating and the state stayed
C1_Witness ==
  /\ idx > 1
  /\ idx - 1 <= Len(msgs)
  /\ msgs[idx - 1].id # NilRaw
  /\ msgs[idx - 1].method = "initialize"
  /\ state = StateOperating
  /\ Len(responses) > 0
  /\ responses[Len(responses)].error # NoError

\* C2: a tools/list or tools/call request with an identifier dispatched in
\* Created or Initializing gets exactly one error response with code -32600
\* and its identifier; the state and the in-flight table do not change and
\* neither ListTools nor CallTool is called.
C2_WrongStateRejected ==
  [][(/\ pc = "dispatch"
      /\ msgs[idx].id # NilRaw
      /\ msgs[idx].method \in {"tools/list", "tools/call"}
      /\ state \in {StateCreated, StateInitializing})
     => (/\ Len(responses') = Len(responses) + 1
         /\ SubSeq(responses', 1, Len(responses)) = responses
         /\ responses'[Len(responses')].id = msgs[idx].id
         /\ responses'[Len(responses')].result = NoResult
         /\ responses'[Len(responses')].error.kind = "error"
         /\ responses'[Len(responses')].error.code = -32600
         /\ state' = state
         /\ inflight' = inflight
         /\ called' = {}
         /\ pc' # "calltool")]_vars

\* a tools/call with good params was refused in Initializing
C2_Witness ==
  /\ idx > 1
  /\ idx - 1 <= Len(msgs)
  /\ msgs[idx - 1].id # NilRaw
  /\ msgs[idx - 1].method = "tools/call"
  /\ msgs[idx - 1].params = CallParams("list_tasks")
  /\ state = StateInitializing
  /\ Len(responses) > 0
  /\ responses[Len(responses)].error # NoError
  /\ responses[Len(responses)].error.code = -32600

\* C3: when the client sends notifications/cancelled with requestId x while
\* the tool of the tools/call request x is still running, no response with
\* identifier x is written to the output.
C3_CancelledIsSilent ==
  ~(/\ sentDuring # NilRaw
    /\ stdin.wire = "object"
    /\ stdin.msgs[1].id = NilRaw
    /\ stdin.msgs[1].method = "notifications/cancelled"
    /\ stdin.msgs[1].params.json = "object"
    /\ stdin.msgs[1].params.requestId = sentDuring
    /\ \E i \in 1..Len(out) : \E j \in 1..Len(out[i].body) :
         /\ out[i].body[j].id = MarshalRaw(sentDuring)
         /\ out[i].body[j].result.kind = "tool")

\* C4: a message without an identifier never causes a response: whatever
\* its method, its params and the state, dispatch returns none, and a line
\* that holds only such a message produces no output.
C4_NotificationSilence ==
  [][/\ (pc = "dispatch" /\ msgs[idx].id = NilRaw) => responses' = responses
     /\ (wire' = "object" /\ Len(msgs') = 1 /\ msgs'[1].id = NilRaw)
          => (out' = <<>> /\ pc' \notin {"write", "returned"})]_vars

\* a tools/call without identifier was handled in Operating, alone on its line
C4_Witness ==
  /\ pc = "next"
  /\ wire = "object"
  /\ msgs[1].id = NilRaw
  /\ msgs[1].method = "tools/call"
  /\ state = StateOperating
  /\ out = <<>>
  /\ responses = <<>>

\* what a JSON reader makes of an identifier text: its JSON type, and its
\* characters with the \u00XX escapes of <, > and & resolved
JSONType(raw) ==
  CASE raw[1] = "\"" -> "string"
    [] raw[1] = "n" -> "null"
    [] raw[1] \in {"-", "0", "1", "2", "3", "4", "5", "6", "7", "8", "9"} -> "number"
    [] OTHER -> "other"

RECURSIVE Unescape(_)
Unescape(s) ==
  IF s = <<>> THEN <<>>
  ELSE IF Len(s) >= 6 /\ SubSeq(s, 1, 4) = <<"\\", "u", "0", "0">>
       THEN LET c == CASE SubSeq(s, 5, 6) = <<"3", "c">> -> "<"
                       [] SubSeq(s, 5, 6) = <<"3", "e">> -> ">"
                       [] SubSeq(s, 5, 6) = <<"2", "6">> -> "&"
                       [] OTHER -> "?"
            IN <<c>> \o Unescape(SubSeq(s, 7, Len(s)))
       ELSE <<Head(s)>> \o Unescape(Tail(s))

JSONValue(raw) == [type |-> JSONType(raw), text |-> Unescape(raw)]

\* C5 as stated: every response written for a request carries exactly the
\* text of the request's identifier.
C5_RawIdentifierEcho ==
  \A i \in 1..Len(out) :
    msgs # <<>> =>
      LET reqs == SelectSeq(msgs, LAMBDA m : m.id # NilRaw) IN
        /\ Len(out[i].body) = Len(reqs)
        /\ \A j \in 1..Len(reqs) : out[i].body[j].id = reqs[j].id

\* C5 (amended): every response written for a request carries the request's
\* identifier with the same JSON type and the same value (a string stays a
\* string, a number a number), for success responses and for the -32600,
\* -32601 and -32602 error responses alike; the text is the request's except
\* that the characters <, > and & inside it are written as the escapes
\* \u003c, \u003e and \u0026.
C5_IdentifierEcho ==
  \A i \in 1..Len(out) :
    msgs # <<>> =>
      LET reqs == SelectSeq(msgs, LAMBDA m : m.id # NilRaw) IN
        /\ Len(out[i].body) = Len(reqs)
        /\ \A j \in 1..Len(reqs) :
             /\ JSONValue(out[i].body[j].id) = JSONValue(reqs[j].id)
             /\ out[i].body[j].id = appendCompact(reqs[j].id)

\* a batch of an error response for the identifier "1" and a success
\* response for the identifier 1 was written
C5_Witness ==
  /\ Len(out) = 1
  /\ Len(msgs) = 2
  /\ msgs[1].id = StringOne
  /\ msgs[2].id = NumberOne
  /\ out[1].body[1].id = StringOne
  /\ out[1].body[1].error # NoError
  /\ out[1].body[2].id = NumberOne
  /\ out[1].body[2].result # NoResult

\* C6: the output framing matches the input framing: a JSON object line
\* produces at most one output line, holding one response object; a JSON
\* array line with k >= 1 requests that have identifiers produces exactly one
\* output line, holding an array of k responses, also when the array has one
\* element.
C6_FramingMatches ==
  pc = "next" =>
    LET k == Len(SelectSeq(msgs, LAMBDA m : m.id # NilRaw)) IN
      /\ wire = "object" =>
           /\ Len(out) <= 1
           /\ \A i \in 1..Len(out) : out[i].form = "object" /\ Len(out[i].body) = 1
      /\ (wire = "array" /\ k >= 1) =>
           /\ Len(out) = 1
           /\ out[1].form = "array"
           /\ Len(out[1].body) = k

\* C7: a batch line whose elements are all notifications produces no output:
\* Run calls neither WriteResponse nor WriteBatchResponse for it.
C7_NotificationBatchSilent ==
  (/\ wire = "array"
   /\ \A i \in 1..Len(msgs) : msgs[i].id = NilRaw)
  => (out = <<>> /\ pc \notin {"write", "returned"})

\* a batch of two notifications was handled in Operating
C7_Witness ==
  /\ pc = "next"
  /\ wire = "array"
  /\ Len(msgs) = 2
  /\ msgs[1].id = NilRaw
  /\ msgs[2].id = NilRaw
  /\ msgs[1].method = "notifications/cancelled"
  /\ msgs[2].method = "tools/list"
  /\ state = StateOperating
  /\ out = <<>>

\* C8 as stated: whenever the response of an accepted initialize request is
\* about to be written, the state is Initializing.
C8_WrittenWhileInitializing ==
  (/\ pc = "write"
   /\ \E i \in 1..Len(responses) : responses[i].result = InitializeResult)
  => state = StateInitializing

\* C8 (amended): an initialize request with an identifier dispatched in
\* Created moves the state to Initializing before its response is returned;
\* the response is a success result with protocol version 2025-03-26, the
\* capabilities tools and logging and the server info; when that response is
\* written the state is Initializing, unless a notifications/initialized
\* that follows the request in the same batch line was handled before the
\* batch response is written, and then the state is Operating.
C8_InitializeAccepted ==
  [][/\ (/\ pc = "dispatch"
         /\ msgs[idx].id # NilRaw
         /\ msgs[idx].method = "initialize"
         /\ state = StateCreated)
        => (/\ state' = StateInitializing
            /\ Len(responses') = Len(responses) + 1
            /\ LET r == responses'[Len(responses')] IN
                 /\ r.id = msgs[idx].id
                 /\ r.error = NoError
                 /\ r.result.kind = "initialize"
                 /\ r.result.protocolVersion = "2025-03-26"
                 /\ r.result.capabilities = {"tools", "logging"}
                 /\ r.result.serverInfo = [name |-> "bossman", version |-> "0.1.0"])
     /\ (/\ pc' = "write"
         /\ \E i \in 1..Len(responses') : responses'[i].result.kind = "initialize")
        => \/ state' = StateInitializing
           \/ /\ state' = StateOperating
              /\ wire' = "array"
              /\ \E i, j \in 1..Len(msgs') :
                   /\ i < j
                   /\ msgs'[i].id # NilRaw
                   /\ msgs'[i].method = "initialize"
                   /\ msgs'[j].id = NilRaw
                   /\ msgs'[j].method = "notifications/initialized"]_vars

\* the response of an initialize request sent on a line of its own was
\* written in Initializing
C8_Witness ==
  /\ pc = "next"
  /\ wire = "object"
  /\ msgs[1].method = "initialize"
  /\ state = StateInitializing
  /\ Len(out) = 1
  /\ out[1].body[1].result = InitializeResult

\* C9: an initialize request with an identifier dispatched in Initializing
\* or Operating gets an error response with code -32600 and its identifier
\* and leaves the state unchanged; at most one initialize request succeeds
\* in an execution.
C9_DuplicateInitialize ==
  [][/\ (/\ pc = "dispatch"
         /\ msgs[idx].id # NilRaw
         /\ msgs[idx].method = "initialize"
         /\ state # StateCreated)
        => (/\ state' = state
            /\ inflight' = inflight
            /\ inits' = inits
            /\ Len(responses') = Len(responses) + 1
            /\ LET r == responses'[Len(responses')] IN
                 /\ r.id = msgs[idx].id
                 /\ r.result = NoResult
                 /\ r.error.kind = "error"
                 /\ r.error.code = -32600)
     /\ inits' <= 1
     /\ (\E i \in 1..Len(responses') : responses'[i].result.kind = "initialize")
          => inits' = 1]_vars

\* a second initialize request was refused in Initializing, in the batch of
\* the first
C9_Witness ==
  /\ pc = "write"
  /\ Len(msgs) = 2
  /\ msgs[1].method = "initialize"
  /\ msgs[2].method = "initialize"
  /\ state = StateInitializing
  /\ inits = 1
  /\ Len(responses) = 2
  /\ responses[1].result = InitializeResult
  /\ responses[2].error # NoError
  /\ responses[2].error.code = -32600

\* C10: the state becomes Operating only by a notifications/initialized
\* handled in Initializing; a notifications/initialized handled in Created
\* or Operating leaves the state unchanged; so tools/list and tools/call
\* succeed only after an initialize request succeeded and a
\* notifications/initialized followed it.
C10_OperatingOnlyByInitialized ==
  [][/\ (state' = StateOperating /\ state # StateOperating)
        => (/\ pc = "dispatch"
            /\ msgs[idx].id = NilRaw
            /\ msgs[idx].method = "notifications/initialized"
            /\ state = StateInitializing)
     /\ (/\ pc = "dispatch"
         /\ msgs[idx].id = NilRaw
         /\ msgs[idx].method = "notifications/initialized"
         /\ state \in {StateCreated, StateOperating})
        => state' = state
     /\ (\/ pc' = "calltool"
         \/ called' # {}
         \/ \E i \in 1..Len(responses') : responses'[i].result.kind \in {"tools", "tool"})
        => (inits' >= 1 /\ acked')]_vars

\* after the handshake a notifications/initialized was ignored in Operating
\* and the tools/list request that follows it in the batch succeeded
C10_Witness ==
  /\ pc = "next"
  /\ state = StateOperating
  /\ Len(msgs) = 2
  /\ msgs[1].id = NilRaw
  /\ msgs[1].method = "notifications/initialized"
  /\ msgs[2].method = "tools/list"
  /\ Len(out) = 1
  /\ out[1].body[1].result.kind = "tools"

\* C11: every request with an identifier dispatched in Initializing whose
\* method is not ping is answered with error code -32600, whatever the
\* method name.
C11_InitializingRefusesAll ==
  [][(/\ pc = "dispatch"
      /\ msgs[idx].id # NilRaw
      /\ msgs[idx].method # "ping"
      /\ state = StateInitializing)
     => (/\ Len(responses') = Len(responses) + 1
         /\ LET r == responses'[Len(responses')] IN
              /\ r.id = msgs[idx].id
              /\ r.result = NoResult
              /\ r.error.kind = "error"
              /\ r.error.code = -32600)]_vars

\* C12: a ping request with an identifier dispatched in Created, Initializing
\* or Operating gets a success response with an empty object as result and
\* its identifier, and changes neither the state nor the in-flight table.
C12_PingEverywhere ==
  [][(/\ pc = "dispatch"
      /\ msgs[idx].id # NilRaw
      /\ msgs[idx].method = "ping")
     => (/\ state \in {StateCreated, StateInitializing, StateOperating}
         /\ state' = state
         /\ inflight' = inflight
         /\ Len(responses') = Len(responses) + 1
         /\ LET r == responses'[Len(responses')] IN
              /\ r.id = msgs[idx].id
              /\ r.error = NoError
              /\ r.result = [kind |-> "object"])]_vars

\* a ping was answered with {} before initialize, and the state is still
\* Created
C12_Witness ==
  /\ pc = "next"
  /\ wire = "object"
  /\ msgs[1].method = "ping"
  /\ msgs[1].id = StringOne
  /\ state = StateCreated
  /\ Len(out) = 1
  /\ out[1].body[1].result = [kind |-> "object"]
  /\ out[1].body[1].error = NoError

C14_ParseErrorAnswered ==
  [][/\ (/\ pc = "read"
         /\ scanner = "open"
         /\ stdin.wire \in {"invalid", "blank"})
        => (/\ pc' = "write"
            /\ Len(responses') = 1
            /\ responses'[1].id = NilRaw
            /\ responses'[1].result = NoResult
            /\ responses'[1].error.kind = "error"
            /\ responses'[1].error.code = -32700
            /\ <<state, inflight, scanner, inits, acked>>' =
                 <<state, inflight, scanner, inits, acked>>)
     /\ (/\ pc = "write"
         /\ wire \in {"invalid", "blank"}
         /\ out' # out)
        => (/\ pc' = "next"
            /\ Len(out') = 1
            /\ out'[1].form = "object"
            /\ out'[1].body[1].id = RawNull
            /\ out'[1].body[1].error.code = -32700
            /\ <<state, inflight, scanner, inits, acked>>' =
                 <<state, inflight, scanner, inits, acked>>)
     /\ (/\ pc = "next"
         /\ wire \in {"invalid", "blank"})
        => (/\ pc' = "read"
            /\ <<state, inflight, scanner, inits, acked>>' =
                 <<state, inflight, scanner, inits, acked>>)]_vars

\* a line of whitespace was answered with a null identifier and -32700
\* between initialize and notifications/initialized, and Run goes on
C14_Witness ==
  /\ pc = "next"
  /\ wire = "blank"
  /\ state = StateInitializing
  /\ scanner = "open"
  /\ Len(out) = 1
  /\ out[1].form = "object"
  /\ out[1].body[1].id = RawNull
  /\ out[1].body[1].error.code = -32700

\* C15: when ReadMessage fails because the input stream reports an error
\* that is not the clean end of the input (a line longer than the buffer
\* among them), Run returns an error at once: no response is prepared for
\* the failure and nothing is read afterwards.
C15_TransportFailureTerminates ==
  [][(/\ pc = "read"
      /\ \/ scanner = "failed"
         \/ stdin.wire = "ioerror")
     => (/\ pc' = "returned"
         /\ ret' = "error"
         /\ responses' = <<>>
         /\ out' = out)]_vars

\* C16: at the clean end of the input, in Created, Initializing or
\* Operating, Run sets the state to Shutdown and returns nil without
\* writing anything; the state is Shutdown only with Run returned, and
\* nothing happens after that.
C16_CleanShutdown ==
  [][/\ (/\ pc = "read"
         /\ scanner = "open"
         /\ stdin.wire = "eof")
        => (/\ state \in {StateCreated, StateInitializing, StateOperating}
            /\ state' = StateShutdown
            /\ pc' = "returned"
            /\ ret' = "nil"
            /\ responses' = <<>>
            /\ out' = <<>>
            /\ inflight' = inflight)
     /\ state' = StateShutdown => pc' = "returned" /\ ret' = "nil"
     /\ state # StateShutdown
     /\ (pc' = "returned" /\ ret' = "nil") => state' = StateShutdown]_vars

\* the input ended between initialize and notifications/initialized
C16_Witness ==
  /\ pc = "returned"
  /\ ret = "nil"
  /\ state = StateShutdown
  /\ wire = "eof"
  /\ inits = 1
  /\ ~acked
  /\ out = <<>>

\* C17: no protocol error and no execution error ends the loop: a write
\* that succeeds, whatever error responses or failed tool results it
\* carries, is followed by the end of the loop body and the next read; Run
\* returns only at the clean end of the input (nil) or on a failure of the
\* transport, reading or writing (error).
C17_ErrorsKeepLoop ==
  [][/\ (pc = "write" /\ out' # out) => (pc' = "next" /\ ret' = "none")
     /\ pc = "next" => (pc' = "read" /\ ret' = "none")
     /\ pc \in {"dispatch", "calltool"} => pc' \in {"dispatch", "calltool", "write", "next"}
     /\ pc' = "returned"
        => \/ /\ pc = "read"
              /\ scanner = "open"
              /\ stdin.wire = "eof"
              /\ ret' = "nil"
           \/ /\ pc = "read"
              /\ (scanner = "failed" \/ stdin.wire = "ioerror")
              /\ ret' = "error"
           \/ /\ pc = "write"
              /\ out' = out
              /\ ret' = "error"]_vars

\* a batch answered with an invalid-params error and a failed tool result
\* was written, and the loop body ended normally
C17_Witness ==
  /\ pc = "next"
  /\ ret = "none"
  /\ state = StateOperating
  /\ Len(out) = 1
  /\ out[1].form = "array"
  /\ Len(out[1].body) = 2
  /\ out[1].body[1].error.kind = "error"
  /\ out[1].body[1].error.code = -32602
  /\ out[1].body[2].result.kind = "tool"
  /\ out[1].body[2].result.isError

\* C18: a write either succeeds, and the line Run handed over is in the
\* output, or fails, and Run returns the error at once; neither changes the
\* state or the in-flight table, so the state is not Shutdown after a
\* failed write; a returned Run reads and dispatches nothing.
C18_WriteFailureReturns ==
  [][/\ pc = "write"
        => /\ \/ /\ out' = Append(out, RunOutput)
                 /\ pc' = "next"
                 /\ ret' = ret
              \/ /\ out' = out
                 /\ pc' = "returned"
                 /\ ret' = "error"
           /\ state' = state
           /\ inflight' = inflight
     /\ ret' = "error" => (pc' = "returned" /\ state' # StateShutdown)
     /\ pc # "returned"]_vars

\* the write of a batch of two responses failed in Operating
C18_Witness ==
  /\ pc = "returned"
  /\ ret = "error"
  /\ state = StateOperating
  /\ wire = "array"
  /\ Len(responses) = 2
  /\ out = <<>>

C20_MalformedParamsRefused ==
  [][(/\ pc = "dispatch"
      /\ msgs[idx].id # NilRaw
      /\ msgs[idx].method = "tools/call"
      /\ state = StateOperating
      /\ \/ msgs[idx].params.json # "object"
         \/ msgs[idx].params.nameType \in {"number", "null"})
     => (/\ pc' # "calltool"
         /\ called' = {}
         /\ inflight' = inflight
         /\ Len(responses') = Len(responses) + 1
         /\ LET r == responses'[Len(responses')] IN
              /\ r.id = msgs[idx].id
              /\ r.result = NoResult
              /\ r.error.kind = "error"
              /\ r.error.code = -32602)]_vars

\* C21: the in-flight table holds exactly the raw identifier of the request
\* whose CallTool is running and nothing else: the entry is there from
\* before CallTool starts until handleToolsCall takes it out, a cancellation
\* handled later finds no entry, and the table is empty whenever Run reads,
\* dispatches, writes or has returned.
C21_InflightOnlyDuringCall ==
  inflight = IF pc = "calltool" THEN {msgs[idx].id} ELSE {}

\* a tools/call was answered, a cancellation for it was sent while it ran,
\* and the table is empty at the end of the loop body
C21_Witness ==
  /\ pc = "next"
  /\ wire = "object"
  /\ msgs[1].method = "tools/call"
  /\ sentDuring = msgs[1].id
  /\ Len(out) = 1
  /\ out[1].body[1].result.kind = "tool"
  /\ inflight = {}

\* C22: a message whose id member is the explicit value null is not handled
\* as a request: its dispatch changes no state and yields no success
\* result.
C22_NullIdRejected ==
  [][(/\ pc = "dispatch"
      /\ msgs[idx].id = RawNull)
     => (/\ state' = state
         /\ inits' = inits
         /\ \A i \in (Len(responses) + 1)..Len(responses') :
              responses'[i].result = NoResult)]_vars

\* C23 as stated: every change of the lifecycle state goes to the next state
\* of (Created, Initializing, Operating, Shutdown), so that the states an
\* execution passes through are a prefix of that list.
C23_PrefixOnly ==
  [][state' # state => state' = state + 1]_vars

\* C23: every change of the lifecycle state is Created to Initializing,
\* Initializing to Operating, or, at the clean end of the input, a change
\* from Created, Initializing or Operating to Shutdown; the states an
\* execution passes through are in the order of (Created, Initializing,
\* Operating, Shutdown) and Initializing and Operating are never entered
\* except from their predecessor.
C23_StateSteps ==
  [][state' # state
     => \/ state = StateCreated /\ state' = StateInitializing
        \/ state = StateInitializing /\ state' = StateOperating
        \/ /\ state \in {StateCreated, StateInitializing, StateOperating}
           /\ state' = StateShutdown
           /\ pc = "read"
           /\ stdin.wire = "eof"]_vars

\* the input ended before any initialize request: Created was followed by
\* Shutdown
C23_Witness ==
  /\ state = StateShutdown
  /\ pc = "returned"
  /\ inits = 0
  /\ ~acked

\* C24: a notifications/cancelled without identifier whose params cannot be
\* decoded or whose requestId is not in the in-flight table adds no
\* response, invokes no cancel function and changes neither the state nor
\* the in-flight table, in every state; alone on its line it leads to no
\* write.
C24_CancelIgnored ==
  [][(/\ pc = "dispatch"
      /\ msgs[idx].id = NilRaw
      /\ msgs[idx].method = "notifications/cancelled"
      /\ \/ msgs[idx].params.json \notin {"object", "null"}
         \/ msgs[idx].params.requestId \notin inflight)
     => (/\ responses' = responses
         /\ state' = state
         /\ inflight' = inflight
         /\ called' = {}
         /\ Len(msgs) = 1 => (pc' = "next" /\ out' = <<>>))]_vars

\* a cancellation naming an identifier that is not in flight went by in
\* Operating without output
C24_Witness ==
  /\ pc = "next"
  /\ wire = "object"
  /\ msgs[1].id = NilRaw
  /\ msgs[1].method = "notifications/cancelled"
  /\ msgs[1].params = CancelledParams(NumberOne)
  /\ state = StateOperating
  /\ out = <<>>
  /\ called = {}

\* C25: a successful ReadMessage yields at least one request: a line taken
\* as an object or an array never leaves Run with an empty list.
C25_ReadNeverEmpty ==
  wire \in {"object", "array"} => Len(msgs) >= 1

\* C26: a message with an identifier whose jsonrpc member is missing or is
\* not "2.0" changes no state and yields no success result when dispatched.
C26_ProtocolTagChecked ==
  [][(/\ pc = "dispatch"
      /\ msgs[idx].id # NilRaw
      /\ msgs[idx].jsonrpc # "2.0")
     => (/\ state' = state
         /\ inits' = inits
         /\ \A i \in (Len(responses) + 1)..Len(responses') :
              responses'[i].result = NoResult)]_vars

\* C27: every tools/list result lists the eight tools, each once, and two
\* results of one execution list them in the same order.
C27_ListToolsStable ==
  \A i, j \in 1..Len(responses) :
    (responses[i].result.kind = "tools" /\ responses[j].result.kind = "tools")
    => /\ Len(responses[i].result.tools) = 8
       /\ \A n \in 1..8 : \E k \in 1..8 : responses[i].result.tools[k] = ToolNames[n]
       /\ responses[i].result.tools = responses[j].result.tools

\* C28: after every tool call each dependency edge joins two tasks of the
\* store; a delete_task that succeeds leaves no edge with the deleted task
\* on either side; a delete_task for an id that is no task returns an error
\* and changes neither tasks nor edges.
C28_EdgesJoinTasks ==
  [][/\ \A e \in blockers' : e[1] \in DOMAIN tasks' /\ e[2] \in DOMAIN tasks'
     /\ (call'.tool = "delete_task" /\ ~reply'.err)
        => \A e \in blockers' : e[1] # call'.a /\ e[2] # call'.a
     /\ (call'.tool = "delete_task" /\ call'.a \notin DOMAIN tasks)
        => (reply'.err /\ tasks' = tasks /\ blockers' = blockers)]_vars

\* C29: no edge of the store has the same id on both sides; add_blocker
\* with the same id twice returns an error, which the server reports as a
\* tool result with isError, and leaves the edges as they were.
C29_NoSelfEdge ==
  [][/\ \A e \in blockers' : e[1] # e[2]
     /\ (call'.tool = "add_blocker" /\ call'.a = call'.b)
        => /\ reply'.err
           /\ NewResponse(NumberOne, ToolResult(reply'.text, reply'.err)).result.isError
           /\ blockers' = blockers
           /\ tasks' = tasks]_vars

\* add_blocker was called with an existing task on both sides and failed
C29_Witness ==
  /\ call.tool = "add_blocker"
  /\ call.a = call.b
  /\ call.a \in DOMAIN tasks
  /\ reply.err
  /\ blockers # {}

\* C30: update_task on an existing task, with values the columns admit,
\* replaces the fields among description, priority, status, context and
\* result that the arguments give a value for, sets updated_at to the
\* clock's reading, and leaves the task's other fields, the other tasks and
\* the edges unchanged; with a value a column does not admit it returns an
\* error and changes nothing; on an id that is no task it returns the error
\* "task not found: " followed by the id and changes nothing.
C30_UpdateFrame ==
  [][call'.tool = "update_task"
     => LET id == call'.a
            args == call'.args
            Given(f) == args[f].given = "value"
        IN
          /\ blockers' = blockers
          /\ IF id \notin DOMAIN tasks
             THEN /\ reply' = [err |-> TRUE, text |-> <<"task not found: ", id>>]
                  /\ tasks' = tasks
             ELSE IF \/ Given("priority") /\ args.priority.v \notin 1..5
                     \/ Given("status") /\ args.status.v \notin Statuses
             THEN /\ reply'.err
                  /\ tasks' = tasks
             ELSE /\ ~reply'.err
                  /\ DOMAIN tasks' = DOMAIN tasks
                  /\ \A i \in DOMAIN tasks : i # id => tasks'[i] = tasks[i]
                  /\ \A f \in {"description", "priority", "status", "context"} :
                       tasks'[id][f] = IF Given(f) THEN args[f].v ELSE tasks[id][f]
                  /\ tasks'[id].result =
                       IF Given("result") THEN <<args.result.v>> ELSE tasks[id].result
                  /\ \A f \in {"parent_id", "created_at", "started_at", "completed_at"} :
                       tasks'[id][f] = tasks[id][f]
                  /\ tasks'[id].updated_at = now']_vars

\* an update of priority, status and result succeeded on a task whose
\* description and context had been changed before, and kept them
C30_Witness ==
  /\ call.tool = "update_task"
  /\ call.args.priority = Value(1)
  /\ ~reply.err
  /\ call.a \in DOMAIN tasks
  /\ tasks[call.a].description = "d1"
  /\ tasks[call.a].context = "c1"
  /\ tasks[call.a].priority = 1
  /\ tasks[call.a].status = "completed"
  /\ tasks[call.a].result = <<"r1">>
  /\ tasks[call.a].updated_at > tasks[call.a].created_at

\* the ids a list_tasks reply names, in its order
Listed == IF reply.text = <<"null">> THEN <<>> ELSE SubSeq(reply.text, 2, Len(reply.text) - 1)

\* whether the task i is one a list_tasks call asks for
Asked(i) ==
  /\ call.args.status.given = "value" => tasks[i].status = call.args.status.v
  /\ call.a # NoId => tasks[i].parent_id = <<call.a>>

\* whether row t sorts strictly before row u
SortsBefore(t, u) ==
  \/ t.priority < u.priority
  \/ t.priority = u.priority /\ t.created_at > u.created_at

\* C31: list_tasks succeeds and names no task twice, only tasks that match the
\* given status and parent_id filters, and never a task after one that sorts
\* strictly behind it (priority ascending, then creation time descending);
\* without a limit, or with limit zero or negative, it names every matching
\* task; with limit n > 0 it names the first n of them (all if there are
\* fewer): no matching task left out sorts strictly before a named one
C31_ListTasks ==
  call.tool = "list_tasks" =>
    LET asked == {i \in DOMAIN tasks : Asked(i)}
        limit == IF call.args.limit.given = "value" THEN call.args.limit.v ELSE 0
        n == Len(Listed)
        named == {Listed[k] : k \in 1..n}
    IN
      /\ ~reply.err
      /\ named \subseteq asked
      /\ Cardinality(named) = n
      /\ \A j, k \in 1..n : j < k => ~SortsBefore(tasks[Listed[k]], tasks[Listed[j]])
      /\ n = IF limit > 0 /\ limit < Cardinality(asked) THEN limit ELSE Cardinality(asked)
      /\ \A i \in asked \ named, k \in 1..n : ~SortsBefore(tasks[i], tasks[Listed[k]])

\* limit 1 over two matching tasks of one priority: the one created later
\* is listed, the other is left out
C31_Witness ==
  /\ call.tool = "list_tasks"
  /\ call.args.limit = Value(1)
  /\ call.args.status = Value("completed")
  /\ Cardinality(DOMAIN tasks) = 2
  /\ \A i \in DOMAIN tasks : Asked(i)
  /\ tasks[TaskIds[1]].priority = tasks[TaskIds[2]].priority
  /\ tasks[TaskIds[1]].created_at < tasks[TaskIds[2]].created_at
  /\ Listed = <<TaskIds[2]>>

\* C32: a create_task call without priority stores its task with priority 3,
\* one with a priority within 1..5 stores it with that priority, and the
\* other tasks stay as they were; a priority outside 1..5 (0 included) is an
\* error that stores nothing. A call with an admissible priority fails only
\* when its parent_id names no task, and then stores nothing either. After
\* every step each stored task has a priority in 1..5 and a status among
\* pending, in_progress, completed and failed
C32_CreatePriority ==
  [][/\ created' # created =>
          LET id == TaskIds[created']
              given == call'.args.priority
              priority == IF given.given = "value" THEN given.v ELSE 3
          IN
            /\ call'.tool = "create_task"
            /\ priority \notin 1..5 => reply'.err
            /\ reply'.err =>
                 /\ tasks' = tasks
                 /\ priority \in 1..5 => call'.a # NoId /\ call'.a \notin DOMAIN tasks
            /\ ~reply'.err =>
                 /\ DOMAIN tasks' = DOMAIN tasks \cup {id}
                 /\ id \notin DOMAIN tasks
                 /\ tasks'[id].priority = priority
                 /\ tasks'[id].status = "pending"
                 /\ \A i \in DOMAIN tasks : tasks'[i] = tasks[i]
     /\ \A i \in DOMAIN tasks' :
          tasks'[i].priority \in 1..5 /\ tasks'[i].status \in Statuses]_vars

\* the second task was created without priority after a call with priority 0
\* failed, and the first with priority 1
C32_Witness ==
  /\ call.tool = "create_task"
  /\ call.args.priority = Absent(0)
  /\ ~reply.err
  /\ created = 2
  /\ DOMAIN tasks = {TaskIds[2]}
  /\ tasks[TaskIds[2]].priority = 3

\* C36: a tool call whose arguments member is absent or is no JSON object
\* returns an execution error and leaves the tables as they were, whichever
\* tool it names
C36_NotObjectIsError ==
  [][call'.json \in NotObjects =>
       /\ reply'.err
       /\ tasks' = tasks
       /\ blockers' = blockers]_vars

\* C33: the mutex is free in every state in which Run is between two steps,
\* that is after each critical section of dispatch, handleInitialize,
\* handleToolsCall, handleNotification and Run has ended, and in particular
\* while CallTool runs
C33_LockFreeDuringCall ==
  /\ mu = Free
  /\ pc = "calltool" => mu = Free /\ msgs[idx].id \in inflight

\* CallTool runs for a request whose cancel function handleToolsCall has put
\* in the in-flight table under the lock
C33_Witness ==
  /\ pc = "calltool"
  /\ mu = Free
  /\ inflight = {msgs[idx].id}
  /\ \E c \in called : c[1] = "CallTool" /\ HasTool(c[2])

\* C34: a cancellation can take effect while its tool runs: in every state in
\* which CallTool runs for the request x, the entry of x is in the in-flight
\* table and a well-formed notifications/cancelled for x waits on the input,
\* Run is able to read that line, so that the notification finds the entry
\* before CallTool has returned
C34_CancelDuringCall ==
  (/\ pc = "calltool"
   /\ msgs[idx].id \in inflight
   /\ stdin \in CancelLines
   /\ stdin.msgs[1].params.json = "object"
   /\ stdin.msgs[1].params.requestId = msgs[idx].id)
    => ENABLED RunRead

\* C35: each request of a batch is dispatched in the state the requests
\* before it have left: once the batch [initialize, notifications/initialized,
\* tools/list] has been dispatched and its initialize was accepted, which is
\* the case exactly when the batch came in Created, the responses are the
\* result of initialize and the result of tools/list, in this order, and the
\* state is Operating
C35_BatchSeesTransitions ==
  (/\ wire = "array"
   /\ msgs = Handshake
   /\ pc \in {"write", "next"}
   /\ responses # <<>>
   /\ responses[1].error = NoError)
    => /\ Len(responses) = 2
       /\ responses[1] = NewResponse(NumberOne, InitializeResult)
       /\ responses[2].id = StringOne
       /\ responses[2].error = NoError
       /\ responses[2].result.kind = "tools"
       /\ state = StateOperating

\* the handshake batch was the first line and its two responses are written
C35_Witness ==
  /\ wire = "array"
  /\ msgs = Handshake
  /\ pc = "next"
  /\ inits = 1
  /\ state = StateOperating
  /\ Len(out) = 1
  /\ out[1].form = "array"
  /\ Len(out[1].body) = 2

\* the requests with identifier among the first k of the line being worked on
Answerable(ms, k) == SelectSeq(SubSeq(ms, 1, k), LAMBDA m : ~IsNotification(m))

\* C37: while Run works on an array line, the requests are dispatched one
\* after another in the order of the line: a step ends the dispatch of
\* request idx and moves to request idx + 1, or it leaves idx where it is
\* and the tool of request idx is running. After each step the responses
\* collected are those of the requests with identifier dispatched so far,
\* in the order of the line, and the array written carries them in that order
C37_BatchOrder ==
  [][/\ pc \in {"dispatch", "calltool"} =>
          /\ idx' \in {idx, idx + 1}
          /\ idx' = idx => pc' = "calltool"
          /\ msgs' = msgs
     /\ (wire' = "array" /\ Len(msgs') >= 1) =>
          LET done == IF pc' = "calltool" THEN idx' - 1 ELSE IF pc' = "dispatch" THEN idx' - 1
                      ELSE Len(msgs')
              asked == Answerable(msgs', done)
          IN
            /\ Len(responses') = Len(asked)
            /\ \A i \in 1..Len(asked) : responses'[i].id = asked[i].id
            /\ \A k \in 1..Len(out') :
                 /\ Len(out'[k].body) = Len(asked)
                 /\ \A i \in 1..Len(asked) : out'[k].body[i].id = MarshalRaw(asked[i].id)]_vars

\* a batch of two requests with different identifiers was answered
C37_Witness ==
  /\ wire = "array"
  /\ Len(msgs) = 2
  /\ msgs[1].id = StringOne
  /\ msgs[2].id = NumberOne
  /\ pc = "next"
  /\ Len(out) = 1
  /\ out[1].form = "array"
  /\ out[1].body[1].id = MarshalRaw(StringOne)
  /\ out[1].body[2].id = MarshalRaw(NumberOne)

\* C38: the identifier is looked at before the method. Dispatching a message
\* without identifier whose method is initialize, tools/list or tools/call
\* leaves the state and the in-flight table as they are, calls neither
\* CallTool nor ListTools and adds no response. Dispatching a message with an
\* identifier whose method is notifications/initialized or
\* notifications/cancelled adds the -32601 response with that identifier,
\* leaves the state and the in-flight table as they are and invokes no
\* cancellation token
C38_IdentifierBeforeMethod ==
  [][/\ (/\ pc = "dispatch"
         /\ msgs[idx].id = NilRaw
         /\ msgs[idx].method \in {"initialize", "tools/list", "tools/call"})
          => /\ state' = state
             /\ inflight' = inflight
             /\ called' = {}
             /\ responses' = responses
             /\ pc' # "calltool"
     /\ (/\ pc = "dispatch"
         /\ msgs[idx].id # NilRaw
         /\ msgs[idx].method \in {"notifications/initialized", "notifications/cancelled"})
          => /\ state' = state
             /\ inflight' = inflight
             /\ called' = {}
             /\ Len(responses') = Len(responses) + 1
             /\ responses'[Len(responses')].id = msgs[idx].id
             /\ responses'[Len(responses')].result = NoResult
             /\ responses'[Len(responses')].error.kind = "error"
             /\ responses'[Len(responses')].error.code = CodeMethodNotFound]_vars

\* in Initializing a batch of an initialize without identifier and a
\* notifications/initialized with identifier was dispatched: one -32601
\* response, and the state is still Initializing
C38_Witness ==
  /\ wire = "array"
  /\ Len(msgs) = 2
  /\ msgs[1] = Request(NilRaw, "initialize", NoParams)
  /\ msgs[2] = Request(NumberOne, "notifications/initialized", NoParams)
  /\ pc = "write"
  /\ state = StateInitializing
  /\ Len(responses) = 1
  /\ responses[1].error.code = CodeMethodNotFound

====
